---- MODULE Spec2Model ----
(***************************************************************************)
(* Model of rust_src/src/windows.rs (remacs): the window records, the      *)
(* classification predicates, the parameter store, resize staging, the     *)
(* mode-line / header-line policy and the point / start setters.           *)
(*                                                                         *)
(* Lisp objects are modelled as strings: symbols by their print name,      *)
(* windows, buffers and frames by an identifier.  Integers are TLA+        *)
(* integers.  A Lisp error (wrong_type!, error!) is recorded in last.err   *)
(* and leaves whatever was written before the signal in place.             *)
(***************************************************************************)
EXTENDS Integers, Sequences, FiniteSets, TLC

\* ------------------------------------------------------------------ bounds
MaxCalls == 1       \* calls per behaviour when every operation is enabled
MaxSteps == 2       \* calls per behaviour in the per-component specifications
MaxPos   == 2       \* buffer positions are 1..MaxPos (the accessible portion)
MaxSize  == 5       \* sizes staged by set_window_new_total are -1..MaxSize
MaxPixel == 7       \* pixel extents drawn for the geometry queries
MaxUnit  == 3       \* frame character sizes drawn for the geometry queries
MaxCols  == 3       \* hscroll is clamped to 0..MaxCols by set_window_hscroll

\* ------------------------------------------------------------ Lisp values
Qnil                == "nil"
Qt                  == "t"
Qnone               == "none"
Qfloor              == "floor"
Qceiling            == "ceiling"
Qmode_line_format   == "mode-line-format"
Qheader_line_format == "header-line-format"
Qwindow_live_p      == "window-live-p"
Qwindow_valid_p     == "window-valid-p"

Windows == {"root", "w1", "w2", "mini", "tool", "dead", "w3"}
Buffers == {"b1", "b2", "bm", "bt"}
Frames  == {"f1", "f2"}

\* Values other than nil, t and none that a caller may store.
Qfmt == "fmt"
ParamKeys  == {Qmode_line_format, Qheader_line_format}
Positions  == 1..MaxPos
\* A position argument: an integer, or an object of the wrong type.
PosArgs    == [type : {"int"}, n : Positions] \cup {[type |-> "symbol", n |-> 0]}
Sizes      == (-1)..MaxSize
Rounds     == {Qfloor, Qceiling, Qnil, Qt}

VARIABLES
  windows,            \* Lisp_Window records, by window
  buffers,            \* per buffer: pt, mode_line_format_, header_line_format_
  frames,             \* per frame: selected_window, column_width, line_height
  selected_window,    \* remacs_sys::selected_window
  current_buffer,     \* ThreadState::current_buffer
  update_mode_lines,  \* remacs_sys::update_mode_lines
  minibuf_level,      \* remacs_sys::minibuf_level: depth of minibuffer nesting
  minibuf_selected_window,  \* remacs_sys::minibuf_selected_window: the window
                      \* that was selected when the minibuffer was entered
  mode_line_in_non_selected_windows,  \* globals.mode_line_in_non_selected_windows
  last,               \* the last call: its name, arguments, result, error
  pre,                \* the program state right before the last call
  fuel                \* number of calls the behaviour may still make

\* The globals no function of the module writes.
minibuf == <<minibuf_level, minibuf_selected_window,
             mode_line_in_non_selected_windows>>

prog == <<windows, buffers, frames, selected_window, current_buffer,
          update_mode_lines, minibuf>>
vars == <<windows, buffers, frames, selected_window, current_buffer,
          update_mode_lines, minibuf, last, pre, fuel>>

Snapshot ==
  [windows |-> windows, buffers |-> buffers, frames |-> frames,
   selected_window |-> selected_window, current_buffer |-> current_buffer,
   update_mode_lines |-> update_mode_lines, minibuf |-> minibuf]

\* ------------------------------------------------- LispObject predicates
is_buffer(o) == o \in Buffers

is_window(o) == o \in Windows

is_nil(o) == o = Qnil

is_not_nil(o) == o # Qnil

\* --------------------------------------------- LispWindowRef predicates
is_live(w) == is_buffer(windows[w].contents)

\* Mutant: only leaf windows count as valid.
is_valid_leaf_only(w) == is_buffer(windows[w].contents)

is_valid(w) == is_not_nil(windows[w].contents)

is_internal(w) == is_window(windows[w].contents)

is_minibuffer(w) == windows[w].mini

is_pseudo(w) == windows[w].pseudo_window_p

is_vertical_combination(w) == is_internal(w) /\ ~windows[w].horizontal

\* Rust's integer division truncates toward zero.
TruncDiv(a, b) ==
  IF (a >= 0) = (b > 0) THEN (IF a >= 0 THEN a \div b ELSE (-a) \div (-b))
  ELSE -((IF a >= 0 THEN a ELSE -a) \div (IF b > 0 THEN b ELSE -b))

\* ------------------------------------------------------- initial states
\* A window as the frame code sets it up: staging cells 0, no parameters,
\* not dedicated, all redisplay flags clear.
Window(contents, parent, next, prev, mini, pseudo, horizontal, geom) ==
  [contents |-> contents, parent |-> parent, next |-> next, prev |-> prev,
   frame |-> "f1", mini |-> mini, pseudo_window_p |-> pseudo,
   horizontal |-> horizontal,
   pixel_left |-> geom[1], pixel_top |-> geom[2],
   pixel_width |-> geom[3], pixel_height |-> geom[4],
   total_cols |-> geom[5], total_lines |-> geom[6],
   window_parameters |-> <<>>, dedicated |-> Qnil, combination_limit |-> Qnil,
   hscroll |-> 0, min_hscroll |-> 0, suspend_auto_hscroll |-> FALSE,
   pointm |-> 1, start |-> 1, new_total |-> 0,
   start_at_line_beg |-> TRUE, force_start |-> FALSE,
   window_end_valid |-> TRUE, update_mode_line |-> FALSE, redisplay |-> FALSE,
   prev_buffers |-> Qnil, next_buffers |-> Qnil, display_table |-> Qnil,
   redisplay_end_trigger |-> Qnil]

\* Frame f1: a horizontal combination "root" of the leaves "w1" and "w2",
\* the minibuffer window "mini", the tool-bar pseudo window "tool", and
\* "dead", a window that was deleted.  Frame f2: the single leaf "w3".
\* cw, lh: the frame's character size; pw, ph: pixel size of w1 and w2;
\* tc: the cached column count of w1 and w2.
Tree(cw, lh, pw, ph, tc) ==
  [w \in Windows |->
     CASE w = "root" -> Window("w1", Qnil, "mini", Qnil, FALSE, FALSE, TRUE,
                               <<0, 0, 2 * pw, ph, 2 * tc, ph \div lh>>)
       [] w = "w1"   -> Window("b1", "root", "w2", Qnil, FALSE, FALSE, FALSE,
                               <<0, 0, pw, ph, tc, ph \div lh>>)
       [] w = "w2"   -> Window("b2", "root", Qnil, "w1", FALSE, FALSE, FALSE,
                               <<pw, 0, pw, ph, tc, ph \div lh>>)
       [] w = "mini" -> Window("bm", Qnil, Qnil, "root", TRUE, FALSE, FALSE,
                               <<0, ph, 2 * pw, lh, 2 * tc, 1>>)
       [] w = "tool" -> Window("bt", Qnil, Qnil, Qnil, FALSE, TRUE, FALSE,
                               <<0, 0, 2 * pw, ph, 2 * tc, ph \div lh>>)
       [] w = "dead" -> Window(Qnil, Qnil, Qnil, Qnil, FALSE, FALSE, FALSE,
                               <<0, 0, pw, ph, tc, ph \div lh>>)
       [] w = "w3"   -> [Window("b2", Qnil, Qnil, Qnil, FALSE, FALSE, FALSE,
                                <<0, 0, pw, ph, tc, ph \div lh>>)
                           EXCEPT !.frame = "f2"]]

InitBuffers ==
  [b \in Buffers |->
     [pt |-> IF b = "b2" THEN MaxPos ELSE 1,
      mode_line_format_ |-> IF b \in {"bm", "bt"} THEN Qnil ELSE Qfmt,
      header_line_format_ |-> Qnil]]

InitHistory(n) ==
  /\ last = [op |-> "none", err |-> Qnil]
  /\ pre = Snapshot
  /\ fuel = n

\* A session in which window SEL is selected and its buffer current; LEVEL
\* minibuffers are active, entered from window MSW; MLNS is the value of
\* mode-line-in-non-selected-windows.
Session(ws, bufs, cw, lh, sel, level, msw, mlns, n) ==
  /\ windows = ws
  /\ buffers = bufs
  /\ frames = [f \in Frames |->
                 [selected_window |-> IF ws[sel].frame = f THEN sel
                                      ELSE IF f = "f1" THEN "w1" ELSE "w3",
                  column_width |-> cw, line_height |-> lh]]
  /\ selected_window = sel
  /\ current_buffer = ws[sel].contents
  /\ update_mode_lines = 0
  /\ minibuf_level = level
  /\ minibuf_selected_window = msw
  /\ mode_line_in_non_selected_windows = mlns
  /\ InitHistory(n)

\* The session after start-up: w1 selected, its buffer current, no
\* minibuffer active, mode-line-in-non-selected-windows at its default.
StartUp(ws, bufs, cw, lh, n) ==
  Session(ws, bufs, cw, lh, "w1", 0, Qnil, TRUE, n)

Init == StartUp(Tree(2, 2, 5, 6, 3), InitBuffers, 2, 2, MaxCalls)

\* ------------------------------------------- decoding a window argument
WindowArgs == Windows \cup {Qnil}

\* nil means the selected window; any window is accepted.
LispWindowOrSelected(obj) ==
  IF is_nil(obj) THEN selected_window ELSE obj

\* Mutant: a combination passes for a live window.
LispWindowLiveOrSelected_valid_passes(obj) ==
  IF is_nil(obj) THEN [win |-> selected_window, err |-> Qnil]
  ELSE IF is_valid(obj) THEN [win |-> obj, err |-> Qnil]
  ELSE [win |-> obj, err |-> Qwindow_live_p]

\* decode_live_window: nil means the selected window, anything else must
\* be a live window.
LispWindowLiveOrSelected(obj) ==
  IF is_nil(obj) THEN [win |-> selected_window, err |-> Qnil]
  ELSE IF is_live(obj) THEN [win |-> obj, err |-> Qnil]
  ELSE [win |-> obj, err |-> Qwindow_live_p]

\* decode_valid_window: nil means the selected window, anything else must
\* be a valid window.
LispWindowValidOrSelected(obj) ==
  IF is_nil(obj) THEN [win |-> selected_window, err |-> Qnil]
  ELSE IF is_valid(obj) THEN [win |-> obj, err |-> Qnil]
  ELSE [win |-> obj, err |-> Qwindow_valid_p]

\* ------------------------------------------------------ call bookkeeping
\* A call returns (or signals): it is recorded with the state it started in.
Return(call) ==
  /\ fuel > 0
  /\ last' = call
  /\ pre' = Snapshot
  /\ fuel' = fuel - 1

\* A Lisp error raised before anything was written.
Signal(call, err) ==
  /\ UNCHANGED prog
  /\ Return([call EXCEPT !.err = err])

\* ------------------------------------------------------- parameter store
\* assq: the index of the first entry whose car is KEY, 0 when there is none.
assq(key, alist) ==
  IF \E i \in 1..Len(alist) : alist[i].car = key
  THEN CHOOSE i \in 1..Len(alist) :
         /\ alist[i].car = key
         /\ \A j \in 1..(i - 1) : alist[j].car # key
  ELSE 0

get_parameter(w, parameter) ==
  LET alist == windows[w].window_parameters
      elt   == assq(parameter, alist)
  IN  IF elt = 0 THEN Qnil ELSE alist[elt].cdr

\* Mutant: a new entry is consed on even when the key has one.
parameters_always_consed(alist, parameter, value) ==
  <<[car |-> parameter, cdr |-> value]>> \o alist

\* Mutant: a new entry is added at the end of the list.
parameters_appended(alist, parameter, value) ==
  LET old_alist_elt == assq(parameter, alist)
  IN  IF old_alist_elt = 0
      THEN alist \o <<[car |-> parameter, cdr |-> value]>>
      ELSE [alist EXCEPT ![old_alist_elt].cdr = value]

\* The alist set_window_parameter leaves: setcdr on the entry found by assq,
\* or a new entry consed onto the front.
parameters_after_set(alist, parameter, value) ==
  LET old_alist_elt == assq(parameter, alist)
  IN  IF old_alist_elt = 0
      THEN <<[car |-> parameter, cdr |-> value]>> \o alist
      ELSE [alist EXCEPT ![old_alist_elt].cdr = value]

set_window_parameter(window, parameter, value) ==
  LET win == LispWindowOrSelected(window)
  IN  /\ windows' = [windows EXCEPT ![win].window_parameters =
                       parameters_after_set(@, parameter, value)]
      /\ UNCHANGED <<buffers, frames, selected_window, current_buffer,
                     update_mode_lines, minibuf>>
      /\ Return([op |-> "set_window_parameter", window |-> window, win |-> win,
                 parameter |-> parameter, value |-> value, err |-> Qnil,
                 ret |-> value])

window_parameter_lisp(window, parameter) ==
  LET win == LispWindowOrSelected(window)
  IN  /\ UNCHANGED prog
      /\ Return([op |-> "window_parameter", window |-> window, win |-> win,
                 parameter |-> parameter, err |-> Qnil,
                 ret |-> get_parameter(win, parameter)])

\* ------------------------------------------------------------ dedication
window_dedicated_p(window) ==
  LET win == LispWindowOrSelected(window)
  IN  /\ UNCHANGED prog
      /\ Return([op |-> "window_dedicated_p", window |-> window, win |-> win,
                 err |-> Qnil, ret |-> windows[win].dedicated])

\* Mutant: every non-nil flag is stored as t.
dedicated_as_boolean(w, flag) ==
  [w EXCEPT !.dedicated = IF is_nil(flag) THEN Qnil ELSE Qt]

\* The window record set_window_dedicated_p leaves.
dedicated_as_given(w, flag) == [w EXCEPT !.dedicated = flag]

set_window_dedicated_p(window, flag) ==
  LET win == LispWindowOrSelected(window)
  IN  /\ windows' = [windows EXCEPT ![win] = dedicated_as_given(@, flag)]
      /\ UNCHANGED <<buffers, frames, selected_window, current_buffer,
                     update_mode_lines, minibuf>>
      /\ Return([op |-> "set_window_dedicated_p", window |-> window,
                 win |-> win, flag |-> flag, err |-> Qnil, ret |-> flag])

\* -------------------------------------------------------- resize staging
window_new_total(window) ==
  LET d == LispWindowValidOrSelected(window)
      call == [op |-> "window_new_total", window |-> window, win |-> d.win,
               err |-> Qnil]
  IN  IF d.err # Qnil THEN Signal(call, d.err)
      ELSE /\ UNCHANGED prog
           /\ Return([op |-> "window_new_total", window |-> window,
                      win |-> d.win, err |-> Qnil,
                      ret |-> windows[d.win].new_total])

\* Mutant: ADD is ignored, the size always overwrites.
staged_new_total_overwrites(w, size, add) == [w EXCEPT !.new_total = size]

\* Mutant: the staged size is installed as the column count right away.
staged_new_total_installed(w, size, add) ==
  LET new_total == IF ~add THEN size ELSE w.new_total + size
  IN  [w EXCEPT !.new_total = new_total, !.total_cols = new_total]

\* The window record set_window_new_total leaves.
staged_new_total(w, size, add) ==
  LET new_total == IF ~add THEN size ELSE w.new_total + size
  IN  [w EXCEPT !.new_total = new_total]

set_window_new_total(window, size, add) ==
  LET d == LispWindowValidOrSelected(window)
      call == [op |-> "set_window_new_total", window |-> window, win |-> d.win,
               size |-> size, add |-> add, err |-> Qnil]
  IN  IF d.err # Qnil THEN Signal(call, d.err)
      ELSE /\ windows' = [windows EXCEPT ![d.win] = staged_new_total(@, size, add)]
           /\ UNCHANGED <<buffers, frames, selected_window, current_buffer,
                          update_mode_lines, minibuf>>
           /\ Return([op |-> "set_window_new_total", window |-> window,
                      win |-> d.win, size |-> size, add |-> add, err |-> Qnil,
                      ret |-> windows'[d.win].new_total])

\* --------------------------------------------------- geometry conversion
\* Mutant: the ceiling adds a whole unit before dividing.
total_width_ceiling_off_by_one(w, round) ==
  IF ~(round = Qfloor \/ round = Qceiling) THEN windows[w].total_cols
  ELSE LET unit == frames[windows[w].frame].column_width
       IN  IF round = Qceiling
           THEN TruncDiv(windows[w].pixel_width + unit, unit)
           ELSE TruncDiv(windows[w].pixel_width, unit)

\* Mutant: only floor is computed from the pixel width.
total_width_floor_only(w, round) ==
  IF round # Qfloor THEN windows[w].total_cols
  ELSE TruncDiv(windows[w].pixel_width, frames[windows[w].frame].column_width)

total_width(w, round) ==
  IF ~(round = Qfloor \/ round = Qceiling) THEN windows[w].total_cols
  ELSE LET unit == frames[windows[w].frame].column_width
       IN  IF round = Qceiling
           THEN TruncDiv(windows[w].pixel_width + unit - 1, unit)
           ELSE TruncDiv(windows[w].pixel_width, unit)

total_height(w, round) ==
  IF ~(round = Qfloor \/ round = Qceiling) THEN windows[w].total_lines
  ELSE LET unit == frames[windows[w].frame].line_height
       IN  IF round = Qceiling
           THEN TruncDiv(windows[w].pixel_height + unit - 1, unit)
           ELSE TruncDiv(windows[w].pixel_height, unit)

window_total_width(window, round) ==
  LET d == LispWindowValidOrSelected(window)
      call == [op |-> "window_total_width", window |-> window, win |-> d.win,
               round |-> round, err |-> Qnil]
  IN  IF d.err # Qnil THEN Signal(call, d.err)
      ELSE /\ UNCHANGED prog
           /\ Return([op |-> "window_total_width", window |-> window,
                      win |-> d.win, round |-> round, err |-> Qnil,
                      ret |-> total_width(d.win, round)])

window_total_height(window, round) ==
  LET d == LispWindowValidOrSelected(window)
      call == [op |-> "window_total_height", window |-> window, win |-> d.win,
               round |-> round, err |-> Qnil]
  IN  IF d.err # Qnil THEN Signal(call, d.err)
      ELSE /\ UNCHANGED prog
           /\ Return([op |-> "window_total_height", window |-> window,
                      win |-> d.win, round |-> round, err |-> Qnil,
                      ret |-> total_height(d.win, round)])

\* ------------------------------------------ mode-line / header-line policy
\* Mutant: a window exactly one line high gets a mode line.
wants_mode_line_height_ge(w) ==
  LET window_mode_line_format == get_parameter(w, Qmode_line_format)
  IN  /\ is_live(w)
      /\ ~is_minibuffer(w)
      /\ ~is_pseudo(w)
      /\ window_mode_line_format # Qnone
      /\ \/ is_not_nil(window_mode_line_format)
         \/ is_not_nil(buffers[windows[w].contents].mode_line_format_)
      /\ windows[w].pixel_height >= frames[windows[w].frame].line_height

wants_mode_line(w) ==
  LET window_mode_line_format == get_parameter(w, Qmode_line_format)
  IN  /\ is_live(w)
      /\ ~is_minibuffer(w)
      /\ ~is_pseudo(w)
      /\ window_mode_line_format # Qnone
      /\ \/ is_not_nil(window_mode_line_format)
         \/ is_not_nil(buffers[windows[w].contents].mode_line_format_)
      /\ windows[w].pixel_height > frames[windows[w].frame].line_height

\* Mutant: the threshold is not doubled for the mode line.
wants_header_line_no_doubling(w) ==
  LET window_header_line_format == get_parameter(w, Qheader_line_format)
      height == frames[windows[w].frame].line_height
  IN  /\ is_live(w)
      /\ ~is_minibuffer(w)
      /\ ~is_pseudo(w)
      /\ window_header_line_format # Qnone
      /\ \/ is_not_nil(window_header_line_format)
         \/ is_not_nil(buffers[windows[w].contents].header_line_format_)
      /\ windows[w].pixel_height > height

wants_header_line(w) ==
  LET window_header_line_format == get_parameter(w, Qheader_line_format)
      line_height == frames[windows[w].frame].line_height
      height == IF wants_mode_line(w) THEN line_height * 2 ELSE line_height
  IN  /\ is_live(w)
      /\ ~is_minibuffer(w)
      /\ ~is_pseudo(w)
      /\ window_header_line_format # Qnone
      /\ \/ is_not_nil(window_header_line_format)
         \/ is_not_nil(buffers[windows[w].contents].header_line_format_)
      /\ windows[w].pixel_height > height

window_wants_mode_line(window) ==
  /\ UNCHANGED prog
  /\ Return([op |-> "window_wants_mode_line", window |-> window,
             win |-> window, err |-> Qnil, ret |-> wants_mode_line(window)])

window_wants_header_line(window) ==
  /\ UNCHANGED prog
  /\ Return([op |-> "window_wants_header_line", window |-> window,
             win |-> window, err |-> Qnil, ret |-> wants_header_line(window)])

\* --------------------------------------------- buffer / marker primitives
\* as_number_coerce_marker_or_error: POS must be a number (or a marker).
is_position(pos) == pos.type = "int"

\* editfns::point takes no argument: the value of point in the current buffer.
point == buffers[current_buffer].pt

\* editfns::goto_char, with CUR the buffer that is current when it runs.
\* Positions are drawn from the accessible portion, so no clipping applies.
goto_char(bufs, cur, pos) == [bufs EXCEPT ![cur].pt = pos.n]

\* marker::set_marker_restricted: the position the marker is left at.
set_marker_restricted(marker, pos, buffer) == pos.n

\* marker::marker_position_lisp
marker_position_lisp(marker) == marker

\* remacs_sys::wset_redisplay
wset_redisplay(ws, w) == [ws EXCEPT ![w].redisplay = TRUE]

\* ------------------------------------------------- point / start tracking
\* The position window_point returns for the live window WIN.
point_of_window(win) ==
  IF win = selected_window THEN point
  ELSE marker_position_lisp(windows[win].pointm)

window_point(window) ==
  LET d == LispWindowLiveOrSelected(window)
      call == [op |-> "window_point", window |-> window, win |-> d.win,
               err |-> Qnil]
  IN  IF d.err # Qnil THEN Signal(call, d.err)
      ELSE /\ UNCHANGED prog
           /\ Return([op |-> "window_point", window |-> window, win |-> d.win,
                      err |-> Qnil,
                      ret |-> point_of_window(d.win)])

window_start(window) ==
  LET d == LispWindowLiveOrSelected(window)
      call == [op |-> "window_start", window |-> window, win |-> d.win,
               err |-> Qnil]
  IN  IF d.err # Qnil THEN Signal(call, d.err)
      ELSE /\ UNCHANGED prog
           /\ Return([op |-> "window_start", window |-> window, win |-> d.win,
                      err |-> Qnil,
                      ret |-> marker_position_lisp(windows[d.win].start)])

\* The buffers set_window_point leaves when WIN is the selected window and
\* POS is a position: WIN's buffer is made current around goto_char unless it
\* already is, and the caller's current buffer is current again at the end.
buffers_after_set_point(win, pos) ==
  IF windows[win].contents = current_buffer
  THEN goto_char(buffers, current_buffer, pos)
  ELSE goto_char(buffers, windows[win].contents, pos)

\* Mutant: the window's buffer is left current.
current_after_set_point_not_restored(win, pos) == windows[win].contents

\* The current buffer set_window_point leaves when WIN is the selected
\* window: the buffer that was current at the call, set again by the second
\* set_buffer_internal when WIN's buffer had to be made current.
current_after_set_point(win, pos) ==
  LET old_buffer == current_buffer
  IN  IF windows[win].contents = current_buffer THEN current_buffer
      ELSE old_buffer

\* Mutant: the marker moves but the window is not flagged for redisplay.
pointm_after_set_point_not_flagged(w, pos) ==
  [w EXCEPT !.pointm = set_marker_restricted(w.pointm, pos, w.contents)]

\* The window record set_window_point leaves for a window that is not selected.
pointm_after_set_point(w, pos) ==
  [w EXCEPT !.pointm = set_marker_restricted(w.pointm, pos, w.contents),
            !.redisplay = TRUE]

set_window_point(window, pos) ==
  LET d == LispWindowLiveOrSelected(window)
      call == [op |-> "set_window_point", window |-> window, win |-> d.win,
               pos |-> pos, err |-> Qnil]
      done == [op |-> "set_window_point", window |-> window, win |-> d.win,
               pos |-> pos, err |-> Qnil, ret |-> pos]
  IN  IF d.err # Qnil THEN Signal(call, d.err)
      ELSE IF ~is_position(pos) THEN Signal(call, "integer-or-marker-p")
      ELSE IF d.win = selected_window
      THEN /\ buffers' = buffers_after_set_point(d.win, pos)
           /\ current_buffer' = current_after_set_point(d.win, pos)
           /\ UNCHANGED <<windows, frames, selected_window, update_mode_lines,
                          minibuf>>
           /\ Return(done)
      ELSE /\ windows' = [windows EXCEPT ![d.win] = pointm_after_set_point(@, pos)]
           /\ UNCHANGED <<buffers, frames, selected_window, current_buffer,
                          update_mode_lines, minibuf>>
           /\ Return(done)

\* wset_update_mode_line: the windows and the global flag it leaves.
wset_update_mode_line(ws, uml, w) ==
  LET fselected_window == frames[ws[w].frame].selected_window
  IN  IF is_window(fselected_window)
      THEN IF fselected_window = w
           THEN [windows |-> ws, update_mode_lines |-> 42]
           ELSE [windows |-> ws, update_mode_lines |-> uml]
      ELSE [windows |-> [ws EXCEPT ![w].update_mode_line = TRUE],
            update_mode_lines |-> uml]

\* Mutant: force_start is set whatever NOFORCE is.
start_after_set_always_forced(w, pos, noforce) ==
  [w EXCEPT !.start = set_marker_restricted(w.start, pos, w.contents),
            !.start_at_line_beg = FALSE,
            !.force_start = TRUE,
            !.window_end_valid = FALSE]

\* The window record set_window_start leaves before the redisplay signals.
start_after_set(w, pos, noforce) ==
  [w EXCEPT !.start = set_marker_restricted(w.start, pos, w.contents),
            !.start_at_line_beg = FALSE,
            !.force_start = IF ~noforce THEN TRUE ELSE @,
            !.window_end_valid = FALSE]

set_window_start(window, pos, noforce) ==
  LET d == LispWindowLiveOrSelected(window)
      call == [op |-> "set_window_start", window |-> window, win |-> d.win,
               pos |-> pos, noforce |-> noforce, err |-> Qnil]
      ws1 == [windows EXCEPT ![d.win] = start_after_set(@, pos, noforce)]
      uml == wset_update_mode_line(ws1, update_mode_lines, d.win)
  IN  IF d.err # Qnil THEN Signal(call, d.err)
      ELSE IF ~is_position(pos) THEN Signal(call, "integer-or-marker-p")
      ELSE /\ windows' = wset_redisplay(uml.windows, d.win)
           /\ update_mode_lines' = uml.update_mode_lines
           /\ UNCHANGED <<buffers, frames, selected_window, current_buffer, minibuf>>
           /\ Return([op |-> "set_window_start", window |-> window,
                      win |-> d.win, pos |-> pos, noforce |-> noforce,
                      err |-> Qnil, ret |-> pos])

\* ------------------------------------------------------ horizontal scroll
\* An ARG of scroll_left / scroll_right: nil, or a number.
ScrollArgs == {[nil |-> TRUE, n |-> 0]} \cup [nil : {FALSE}, n : {-1, 1}]

\* interactive::prefix_numeric_value of a number is that number.
prefix_numeric_value(arg) == arg.n

\* remacs_sys::window_body_width, in columns.
window_body_width(w) == windows[w].total_cols

\* remacs_sys::set_window_hscroll: the hscroll it installs, clipped to the
\* valid range.
set_window_hscroll(w, hscroll) ==
  IF hscroll < 0 THEN 0 ELSE IF hscroll > MaxCols THEN MaxCols ELSE hscroll

\* Mutant: the minimum is taken from hscroll as it was before the scroll.
scrolled_minimum_before_scroll(w, arg, set_minimum, left) ==
  LET requested_arg ==
        IF arg.nil THEN window_body_width(selected_window) - 2
        ELSE IF left THEN prefix_numeric_value(arg)
        ELSE -prefix_numeric_value(arg)
      result == set_window_hscroll(selected_window, w.hscroll + requested_arg)
  IN  [w EXCEPT !.hscroll = result,
                !.min_hscroll = IF is_not_nil(set_minimum) THEN w.hscroll ELSE @,
                !.suspend_auto_hscroll = TRUE]

\* The window record scroll_horizontally leaves for the selected window.
scrolled(w, arg, set_minimum, left) ==
  LET requested_arg ==
        IF arg.nil THEN window_body_width(selected_window) - 2
        ELSE IF left THEN prefix_numeric_value(arg)
        ELSE -prefix_numeric_value(arg)
      result == set_window_hscroll(selected_window, w.hscroll + requested_arg)
  IN  [w EXCEPT !.hscroll = result,
                !.min_hscroll = IF is_not_nil(set_minimum) THEN result ELSE @,
                !.suspend_auto_hscroll = TRUE]

scroll_horizontally(op, arg, set_minimum, left) ==
  /\ windows' = [windows EXCEPT ![selected_window] =
                   scrolled(@, arg, set_minimum, left)]
  /\ UNCHANGED <<buffers, frames, selected_window, current_buffer,
                 update_mode_lines, minibuf>>
  /\ Return([op |-> op, win |-> selected_window, arg |-> arg,
             set_minimum |-> set_minimum, err |-> Qnil,
             ret |-> windows'[selected_window].hscroll])

scroll_left(arg, set_minimum) ==
  scroll_horizontally("scroll_left", arg, set_minimum, TRUE)

scroll_right(arg, set_minimum) ==
  scroll_horizontally("scroll_right", arg, set_minimum, FALSE)

\* --------------------------- buffer history, display table, end trigger
\* The setters that store VALUE in one field of a live window.
LiveSetters == {"prev_buffers", "next_buffers", "display_table",
                "redisplay_end_trigger"}

stored(w, slot, value) ==
  CASE slot = "prev_buffers"          -> [w EXCEPT !.prev_buffers = value]
    [] slot = "next_buffers"          -> [w EXCEPT !.next_buffers = value]
    [] slot = "display_table"         -> [w EXCEPT !.display_table = value]
    [] slot = "redisplay_end_trigger" -> [w EXCEPT !.redisplay_end_trigger = value]

set_live_window_slot(slot, window, value) ==
  LET d == LispWindowLiveOrSelected(window)
      call == [op |-> "set_window_" \o slot, window |-> window, win |-> d.win,
               value |-> value, err |-> Qnil]
  IN  IF d.err # Qnil THEN Signal(call, d.err)
      ELSE /\ windows' = [windows EXCEPT ![d.win] = stored(@, slot, value)]
           /\ UNCHANGED <<buffers, frames, selected_window, current_buffer,
                          update_mode_lines, minibuf>>
           /\ Return([op |-> "set_window_" \o slot, window |-> window,
                      win |-> d.win, value |-> value, err |-> Qnil,
                      ret |-> value])

\* The matching getters.
fetched(w, slot) ==
  CASE slot = "prev_buffers"          -> w.prev_buffers
    [] slot = "next_buffers"          -> w.next_buffers
    [] slot = "display_table"         -> w.display_table
    [] slot = "redisplay_end_trigger" -> w.redisplay_end_trigger

live_window_slot(slot, window) ==
  LET d == LispWindowLiveOrSelected(window)
      call == [op |-> "window_" \o slot, window |-> window, win |-> d.win,
               err |-> Qnil]
  IN  IF d.err # Qnil THEN Signal(call, d.err)
      ELSE /\ UNCHANGED prog
           /\ Return([op |-> "window_" \o slot, window |-> window,
                      win |-> d.win, err |-> Qnil,
                      ret |-> fetched(windows[d.win], slot)])

window_prev_buffers(window) == live_window_slot("prev_buffers", window)

window_next_buffers(window) == live_window_slot("next_buffers", window)

window_display_table(window) == live_window_slot("display_table", window)

window_redisplay_end_trigger(window) ==
  live_window_slot("redisplay_end_trigger", window)

set_window_prev_buffers(window, prev_buffers) ==
  set_live_window_slot("prev_buffers", window, prev_buffers)

set_window_next_buffers(window, next_buffers) ==
  set_live_window_slot("next_buffers", window, next_buffers)

set_window_display_table(window, table) ==
  set_live_window_slot("display_table", window, table)

set_window_redisplay_end_trigger(window, value) ==
  set_live_window_slot("redisplay_end_trigger", window, value)

\* ------------------------------------------------------ combination limit
window_combination_limit(window) ==
  LET call == [op |-> "window_combination_limit", window |-> window,
               win |-> window, err |-> Qnil]
  IN  IF ~is_window(window) THEN Signal(call, "windowp")
      ELSE IF ~is_internal(window)
      THEN Signal(call, "Combination limit is meaningful for internal windows only")
      ELSE /\ UNCHANGED prog
           /\ Return([op |-> "window_combination_limit", window |-> window,
                      win |-> window, err |-> Qnil,
                      ret |-> windows[window].combination_limit])

\* Mutant: the limit is returned but never stored.
combination_limit_dropped(w, limit) == w

\* The window record set_window_combination_limit leaves.
combination_limit_stored(w, limit) == [w EXCEPT !.combination_limit = limit]

set_window_combination_limit(window, limit) ==
  LET call == [op |-> "set_window_combination_limit", window |-> window,
               win |-> window, limit |-> limit, err |-> Qnil]
  IN  IF ~is_window(window) THEN Signal(call, "windowp")
      ELSE IF ~is_internal(window)
      THEN Signal(call, "Combination limit is meaningful for internal windows only")
      ELSE /\ windows' = [windows EXCEPT ![window] =
                            combination_limit_stored(@, limit)]
           /\ UNCHANGED <<buffers, frames, selected_window, current_buffer,
                          update_mode_lines, minibuf>>
           /\ Return([op |-> "set_window_combination_limit", window |-> window,
                      win |-> window, limit |-> limit, err |-> Qnil,
                      ret |-> limit])

\* --------------------------------------------------------- mode-line face
MODE_LINE_FACE_ID          == "MODE_LINE_FACE_ID"
MODE_LINE_INACTIVE_FACE_ID == "MODE_LINE_INACTIVE_FACE_ID"

\* The face id CURRENT_MODE_LINE_FACE_ID_3 returns.  current_minibuf_window
\* is the name this file imports remacs_sys::minibuf_selected_window under.
face_id_3(selw, mbw, scrw) ==
  LET current == IF is_window(selected_window) THEN selected_window ELSE "null"
      current_minibuf_window == minibuf_selected_window
  IN  IF ~mode_line_in_non_selected_windows \/ selw = current
      THEN MODE_LINE_FACE_ID
      ELSE IF /\ minibuf_level > 0
              /\ is_window(current_minibuf_window)
              /\ mbw = current_minibuf_window
              /\ scrw = current_minibuf_window
      THEN MODE_LINE_FACE_ID
      ELSE MODE_LINE_INACTIVE_FACE_ID

CURRENT_MODE_LINE_FACE_ID_3(selw, mbw, scrw) ==
  /\ UNCHANGED prog
  /\ Return([op |-> "CURRENT_MODE_LINE_FACE_ID_3", selw |-> selw, mbw |-> mbw,
             scrw |-> scrw, err |-> Qnil, ret |-> face_id_3(selw, mbw, scrw)])

CURRENT_MODE_LINE_FACE_ID(window) ==
  LET current == IF is_window(selected_window) THEN selected_window ELSE "null"
  IN  /\ UNCHANGED prog
      /\ Return([op |-> "CURRENT_MODE_LINE_FACE_ID", window |-> window,
                 win |-> window, err |-> Qnil,
                 ret |-> face_id_3(window, current, window)])

\* ------------------------------------------------------------ window list
\* The selected frame: the frame of the selected window.
selected_frame == windows[selected_window].frame

\* frames::LispFrameOrSelected: nil means the selected frame.
LispFrameOrSelected(obj) == IF is_nil(obj) THEN selected_frame ELSE obj

\* The live windows of all frames in their canonical order.
WindowOrder == <<"w1", "w2", "mini", "w3">>

\* remacs_sys::window_list_1 with a frame as ALL-FRAMES: the live windows on
\* that frame, the minibuffer window among them as MINIBUF (minibuf_arg) says, starting
\* with WINDOW when it is one of them.
window_list_1(window, minibuf_arg, all_frames) ==
  LET candidate(w) ==
        /\ windows[w].frame = all_frames
        /\ is_live(w)
        /\ is_minibuffer(w) =>
             \/ minibuf_arg = Qt
             \/ is_nil(minibuf_arg) /\ minibuf_level > 0
      list == SelectSeq(WindowOrder, candidate)
      at   == {i \in 1..Len(list) : list[i] = window}
  IN  IF at = {} THEN list
      ELSE LET i == CHOOSE i \in at : TRUE
           IN  SubSeq(list, i, Len(list)) \o SubSeq(list, 1, i - 1)

\* Mutant: the frame of the starting window is not looked at.
same_frame_unchecked(w_ref, f_obj) == TRUE

\* f_obj.eq(w_ref.frame)
same_frame(w_ref, f_obj) == f_obj = windows[w_ref].frame

window_list(frame, minibuf_arg, window) ==
  LET f_obj == LispFrameOrSelected(frame)
      w_obj == IF is_nil(window) THEN frames[f_obj].selected_window ELSE window
      call  == [op |-> "window_list", frame |-> frame, minibuf |-> minibuf_arg,
                window |-> window, win |-> w_obj, err |-> Qnil]
  IN  IF ~same_frame(w_obj, f_obj)
      THEN Signal(call, "Window is on a different frame")
      ELSE /\ UNCHANGED prog
           /\ Return([op |-> "window_list", frame |-> frame,
                      minibuf |-> minibuf_arg, window |-> window, win |-> w_obj,
                      err |-> Qnil,
                      traversal |-> <<w_obj, minibuf_arg, f_obj>>,
                      ret |-> window_list_1(w_obj, minibuf_arg, f_obj)])

\* --------------------------------------------- selection, current buffer
\* select_window, as its documentation states it: WINDOW becomes the selected
\* window and its frame's selected window, its buffer becomes current and
\* that buffer's point is set to WINDOW's window-point.
select_window_lisp(window) ==
  LET call == [op |-> "select_window", window |-> window, win |-> window,
               err |-> Qnil]
  IN  IF ~(is_window(window) /\ is_live(window)) THEN Signal(call, Qwindow_live_p)
      ELSE /\ selected_window' = window
           /\ frames' = [frames EXCEPT ![windows[window].frame].selected_window = window]
           /\ current_buffer' = windows[window].contents
           /\ buffers' = [buffers EXCEPT ![windows[window].contents].pt =
                            marker_position_lisp(windows[window].pointm)]
           /\ UNCHANGED <<windows, update_mode_lines, minibuf>>
           /\ Return([op |-> "select_window", window |-> window, win |-> window,
                      err |-> Qnil, ret |-> window])

\* remacs_sys::set_buffer_internal called by other code (set-buffer,
\* with-current-buffer): some buffer becomes current.
set_buffer_internal(b) ==
  /\ current_buffer' = b
  /\ UNCHANGED <<windows, buffers, frames, selected_window, update_mode_lines, minibuf>>
  /\ Return([op |-> "set_buffer", buffer |-> b, err |-> Qnil, ret |-> b])

\* ---------------------------------------------------------------- actions
ParamValues == {Qnil, Qnone, Qfmt}
Flags       == {Qnil, Qt, Qfmt}
SlotValues  == {Qnil, Qfmt}

SetWindowParameter ==
  \E window \in WindowArgs, parameter \in ParamKeys, value \in ParamValues :
    set_window_parameter(window, parameter, value)

WindowParameter ==
  \E window \in WindowArgs, parameter \in ParamKeys :
    window_parameter_lisp(window, parameter)

WindowDedicatedP == \E window \in WindowArgs : window_dedicated_p(window)

SetWindowDedicatedP ==
  \E window \in WindowArgs, flag \in Flags : set_window_dedicated_p(window, flag)

WindowNewTotal == \E window \in WindowArgs : window_new_total(window)

SetWindowNewTotal ==
  \E window \in WindowArgs, size \in Sizes, add \in BOOLEAN :
    set_window_new_total(window, size, add)

WindowTotalWidth ==
  \E window \in WindowArgs, round \in Rounds : window_total_width(window, round)

WindowTotalHeight ==
  \E window \in WindowArgs, round \in Rounds : window_total_height(window, round)

WindowWantsModeLine == \E window \in Windows : window_wants_mode_line(window)

WindowWantsHeaderLine == \E window \in Windows : window_wants_header_line(window)

WindowPoint == \E window \in WindowArgs : window_point(window)

WindowStart == \E window \in WindowArgs : window_start(window)

SetWindowPoint ==
  \E window \in WindowArgs, pos \in PosArgs : set_window_point(window, pos)

SetWindowStart ==
  \E window \in WindowArgs, pos \in PosArgs, noforce \in BOOLEAN :
    set_window_start(window, pos, noforce)

ScrollLeft ==
  \E arg \in ScrollArgs, set_minimum \in {Qnil, Qt} : scroll_left(arg, set_minimum)

ScrollRight ==
  \E arg \in ScrollArgs, set_minimum \in {Qnil, Qt} : scroll_right(arg, set_minimum)

SetWindowPrevBuffers ==
  \E window \in WindowArgs, v \in SlotValues : set_window_prev_buffers(window, v)

SetWindowNextBuffers ==
  \E window \in WindowArgs, v \in SlotValues : set_window_next_buffers(window, v)

SetWindowDisplayTable ==
  \E window \in WindowArgs, v \in SlotValues : set_window_display_table(window, v)

SetWindowRedisplayEndTrigger ==
  \E window \in WindowArgs, v \in SlotValues :
    set_window_redisplay_end_trigger(window, v)

WindowPrevBuffers == \E window \in WindowArgs : window_prev_buffers(window)

WindowNextBuffers == \E window \in WindowArgs : window_next_buffers(window)

WindowDisplayTable == \E window \in WindowArgs : window_display_table(window)

WindowRedisplayEndTrigger ==
  \E window \in WindowArgs : window_redisplay_end_trigger(window)

WindowCombinationLimit ==
  \E window \in WindowArgs : window_combination_limit(window)

SetWindowCombinationLimit ==
  \E window \in WindowArgs, limit \in {Qnil, Qt} :
    set_window_combination_limit(window, limit)

\* The windows redisplay asks a mode-line face for.
FaceWindows == {"w1", "w2", "mini"}

CurrentModeLineFaceId3 ==
  \E selw \in FaceWindows, mbw \in FaceWindows, scrw \in FaceWindows :
    CURRENT_MODE_LINE_FACE_ID_3(selw, mbw, scrw)

CurrentModeLineFaceId ==
  \E window \in FaceWindows : CURRENT_MODE_LINE_FACE_ID(window)

WindowList ==
  \E frame \in Frames \cup {Qnil}, minibuf_arg \in Flags, window \in WindowArgs :
    window_list(frame, minibuf_arg, window)

SelectWindow == \E window \in Windows : select_window_lisp(window)

SetBuffer == \E b \in Buffers : set_buffer_internal(b)

\* --------------------------------------------------------- specifications
\* Every operation of the module, from the start-up state.
Next ==
  \/ SetWindowParameter
  \/ WindowParameter
  \/ WindowDedicatedP
  \/ SetWindowDedicatedP
  \/ WindowNewTotal
  \/ SetWindowNewTotal
  \/ WindowTotalWidth
  \/ WindowTotalHeight
  \/ WindowWantsModeLine
  \/ WindowWantsHeaderLine
  \/ WindowPoint
  \/ WindowStart
  \/ SetWindowPoint
  \/ SetWindowStart
  \/ ScrollLeft
  \/ ScrollRight
  \/ SetWindowPrevBuffers
  \/ SetWindowNextBuffers
  \/ SetWindowDisplayTable
  \/ SetWindowRedisplayEndTrigger
  \/ WindowPrevBuffers
  \/ WindowNextBuffers
  \/ WindowDisplayTable
  \/ WindowRedisplayEndTrigger
  \/ WindowCombinationLimit
  \/ SetWindowCombinationLimit
  \/ CurrentModeLineFaceId3
  \/ CurrentModeLineFaceId
  \/ WindowList
  \/ SelectWindow
  \/ SetBuffer

Spec == Init /\ [][Next]_vars

\* Geometry queries, over frames and windows of every small size.  The cached
\* column / line counts are the ones a layout pass may have assigned: the
\* pixel extent divided by the unit, rounded either way.
InitGeom ==
  \/ \E unit \in 1..MaxUnit, pw \in 0..MaxPixel, ph \in 0..MaxPixel :
       \E tc \in {pw \div unit, (pw + unit - 1) \div unit} :
         StartUp(Tree(unit, unit, pw, ph, tc), InitBuffers, unit, unit, MaxSteps)
  \* a frame of 10-pixel characters split into two windows 305 pixels wide
  \/ \E tc \in {30, 31} :
       StartUp(Tree(10, 10, 305, 60, tc), InitBuffers, 10, 10, MaxSteps)

NextGeom == WindowTotalWidth \/ WindowTotalHeight

SpecGeom == InitGeom /\ [][NextGeom]_vars

\* The parameter lists a caller may have built: each key absent or set.
LineAlists ==
  LET one(k) == {<<>>} \cup {<<[car |-> k, cdr |-> v]>> : v \in ParamValues}
  IN  {a \o b : a \in one(Qmode_line_format), b \in one(Qheader_line_format)}
      \cup {b \o a : a \in one(Qmode_line_format), b \in one(Qheader_line_format)}

WithParameters(ws, alist) ==
  [w \in Windows |-> [ws[w] EXCEPT !.window_parameters = alist]]

\* Mode-line / header-line policy, over window heights, parameter lists and
\* buffer formats.
InitLines ==
  \E lh \in 1..MaxUnit, ph \in 0..MaxPixel, alist \in LineAlists,
     mlf \in {Qnil, Qfmt}, hlf \in {Qnil, Qfmt} :
    StartUp(WithParameters(Tree(lh, lh, ph, ph, ph \div lh), alist),
            [b \in Buffers |-> [pt |-> 1, mode_line_format_ |-> mlf,
                                header_line_format_ |-> hlf]],
            lh, lh, MaxSteps)

NextLines == WindowWantsModeLine \/ WindowWantsHeaderLine

SpecLines == InitLines /\ [][NextLines]_vars

\* Parameter store: w1 starts with some of the lists above.
InitParams ==
  \E alist \in {a \in LineAlists : \A i \in 1..Len(a) : a[i].cdr # Qnone} :
    StartUp([Tree(2, 2, 5, 6, 3) EXCEPT !["w1"].window_parameters = alist],
            InitBuffers, 2, 2, MaxSteps)

NextParams == SetWindowParameter \/ WindowParameter

SpecParams == InitParams /\ [][NextParams]_vars

\* Resize staging.
InitStaging == StartUp(Tree(2, 2, 5, 6, 3), InitBuffers, 2, 2, MaxSteps)

NextStaging == SetWindowNewTotal \/ WindowNewTotal

SpecStaging == InitStaging /\ [][NextStaging]_vars

\* Point and start tracking, with selection and the current buffer changing.
InitPoint == StartUp(Tree(2, 2, 5, 6, 3), InitBuffers, 2, 2, MaxSteps)

NextPoint ==
  \/ WindowPoint
  \/ WindowStart
  \/ SetWindowPoint
  \/ SetWindowStart
  \/ SelectWindow
  \/ SetBuffer

SpecPoint == InitPoint /\ [][NextPoint]_vars

\* Horizontal scrolling of the selected window, from every scroll position
\* earlier scrolling may have left.
InitScroll ==
  \E hscroll \in 0..MaxCols, min_hscroll \in 0..MaxCols :
    StartUp([Tree(2, 2, 5, 6, 3) EXCEPT !["w1"].hscroll = hscroll,
                                        !["w1"].min_hscroll = min_hscroll],
            InitBuffers, 2, 2, MaxSteps)

NextScroll == ScrollLeft \/ ScrollRight

SpecScroll == InitScroll /\ [][NextScroll]_vars

\* Dedication flags, set and read in any order.
InitDedicated == StartUp(Tree(2, 2, 5, 6, 3), InitBuffers, 2, 2, MaxSteps)

NextDedicated == SetWindowDedicatedP \/ WindowDedicatedP

SpecDedicated == InitDedicated /\ [][NextDedicated]_vars

\* Window lists, with the selection moving between the frames.
InitList == StartUp(Tree(2, 2, 5, 6, 3), InitBuffers, 2, 2, MaxSteps)

NextList == WindowList \/ SelectWindow

SpecList == InitList /\ [][NextList]_vars

\* Mode-line faces, in the sessions the minibuffer code sets up: no
\* minibuffer active, or one entered from w1 or w2, with the minibuffer
\* window or one of the other windows selected.
InitFace ==
  \E sel \in FaceWindows, level \in {0, 1}, mlns \in BOOLEAN :
    \E msw \in IF level = 0 THEN {Qnil} ELSE {"w1", "w2"} :
      Session(Tree(2, 2, 5, 6, 3), InitBuffers, 2, 2, sel, level, msw, mlns,
              MaxSteps)

NextFace == CurrentModeLineFaceId3 \/ CurrentModeLineFaceId

SpecFace == InitFace /\ [][NextFace]_vars

\* ================================================================ claims
Leaf(w)     == windows[w].contents \in Buffers
Internal(w) == windows[w].contents \in Windows
Empty(w)    == windows[w].contents = Qnil
Returned(op) == last.op = op /\ last.err = Qnil

\* C1: every window is exactly one of Leaf, Internal, Empty; is_live holds
\* exactly for Leaf, is_internal exactly for Internal, is_valid exactly for
\* Leaf or Internal; is_live and is_internal never hold together.
C1_Classification ==
  \A w \in Windows :
    /\ Cardinality({k \in {"leaf", "internal", "empty"} :
                      \/ k = "leaf" /\ Leaf(w)
                      \/ k = "internal" /\ Internal(w)
                      \/ k = "empty" /\ Empty(w)}) = 1
    /\ is_live(w) <=> Leaf(w)
    /\ is_internal(w) <=> Internal(w)
    /\ is_valid(w) <=> (Leaf(w) \/ Internal(w))
    /\ ~(is_live(w) /\ is_internal(w))

\* A call has been made on a tree holding a leaf, a combination and a
\* deleted window.
C1_Witness ==
  /\ last.op # "none"
  /\ is_live("w1") /\ is_internal("root") /\ ~is_valid("dead")
  /\ is_valid("root") /\ ~is_live("root")

\* C2: for every window, total_width / total_height with floor is at most
\* the value with ceiling, and the two are equal exactly when the pixel
\* extent is a multiple of the frame's unit.
C2_FloorLeCeiling ==
  \A w \in Windows :
    LET cw == frames[windows[w].frame].column_width
        lh == frames[windows[w].frame].line_height
    IN  /\ total_width(w, Qfloor) <= total_width(w, Qceiling)
        /\ (total_width(w, Qfloor) = total_width(w, Qceiling))
             <=> (windows[w].pixel_width % cw = 0)
        /\ total_height(w, Qfloor) <= total_height(w, Qceiling)
        /\ (total_height(w, Qfloor) = total_height(w, Qceiling))
             <=> (windows[w].pixel_height % lh = 0)

\* window_total_width with ceiling returned more than floor gives, on a
\* window whose pixel width is no multiple of the character width.
C2_Witness ==
  /\ Returned("window_total_width")
  /\ last.round = Qceiling
  /\ windows[last.win].pixel_width > 0
  /\ windows[last.win].pixel_width % frames["f1"].column_width # 0
  /\ last.ret = total_width(last.win, Qfloor) + 1

\* C3: after set_window_parameter(w, k, v), get_parameter(w, k) is v; when k
\* had an entry, the list keeps its length and every other key keeps its
\* position and value.
C3_SetThenGet ==
  Returned("set_window_parameter") =>
    LET old == pre.windows[last.win].window_parameters
        new == windows[last.win].window_parameters
    IN  /\ get_parameter(last.win, last.parameter) = last.value
        /\ (\E i \in 1..Len(old) : old[i].car = last.parameter) =>
             /\ Len(new) = Len(old)
             /\ \A i \in 1..Len(old) :
                  /\ new[i].car = old[i].car
                  /\ old[i].car # last.parameter => new[i].cdr = old[i].cdr

\* The key set was the second of two entries and got a different value.
C3_Witness ==
  /\ Returned("set_window_parameter")
  /\ LET old == pre.windows[last.win].window_parameters
     IN  /\ Len(old) = 2
         /\ old[2].car = last.parameter
         /\ old[2].cdr # last.value
         /\ old[1].cdr # Qnil

\* C4: window_point on the selected window returns the point of that
\* window's own buffer, whichever buffer is current; on another live window
\* it returns the position of the window's point marker.
C4_WindowPointOwnBuffer ==
  Returned("window_point") =>
    IF last.win = selected_window
    THEN last.ret = buffers[windows[last.win].contents].pt
    ELSE last.ret = windows[last.win].pointm

\* C5: after set_window_start on a live window, selected in its frame or
\* not, a mode-line update is signalled (the window's update_mode_line or
\* the global update_mode_lines) and the window needs redisplay.
C5_StartSignalsModeLine ==
  Returned("set_window_start") =>
    /\ windows[last.win].update_mode_line \/ update_mode_lines # 0
    /\ windows[last.win].redisplay

\* C6: after set_window_start(w, pos, noforce) the start marker is at pos,
\* start_at_line_beg and window_end_valid are false, force_start is true
\* when noforce is false and keeps its value when noforce is true.
C6_StartFields ==
  Returned("set_window_start") =>
    LET w == windows[last.win]
    IN  /\ w.start = last.pos.n
        /\ ~w.start_at_line_beg
        /\ ~w.window_end_valid
        /\ IF ~last.noforce THEN w.force_start
           ELSE w.force_start = pre.windows[last.win].force_start

\* The start moved under noforce while force_start was clear, and stayed clear.
C6_Witness ==
  /\ Returned("set_window_start")
  /\ last.noforce
  /\ ~pre.windows[last.win].force_start
  /\ ~windows[last.win].force_start
  /\ windows[last.win].start # pre.windows[last.win].start
  /\ pre.windows[last.win].start_at_line_beg

\* C7: set_window_new_total(w, size, add) stages size, or the previous staged
\* value plus size when add is set, returns the staged value, and
\* window_new_total reads the staged value.
C7_StagedTotal ==
  /\ Returned("set_window_new_total") =>
       LET old == pre.windows[last.win].new_total
           staged == IF last.add THEN old + last.size ELSE last.size
       IN  /\ last.ret = staged
           /\ windows[last.win].new_total = staged
  /\ Returned("window_new_total") =>
       /\ last.ret = windows[last.win].new_total
       /\ windows = pre.windows

\* 5 was staged, then 3 was added: 8 is staged and returned.
C7_Witness ==
  /\ Returned("set_window_new_total")
  /\ last.add /\ last.size = 3
  /\ pre.windows[last.win].new_total = 5
  /\ last.ret = 8
  /\ windows[last.win].new_total = 8

\* The fields no operation of the module writes.
Layout(w) ==
  <<w.pixel_left, w.pixel_top, w.pixel_width, w.pixel_height, w.total_cols,
    w.total_lines, w.contents, w.parent, w.next, w.prev>>

\* C8: no call changes a window's pixel_left, pixel_top, pixel_width,
\* pixel_height, total_cols, total_lines, contents, parent or sibling links.
C8_LayoutUntouched ==
  \A w \in Windows : Layout(windows[w]) = Layout(pre.windows[w])

\* set_window_new_total staged a new value on the combination "root".
C8_Witness ==
  /\ Returned("set_window_new_total")
  /\ last.win = "root"
  /\ is_internal(last.win)
  /\ windows[last.win].new_total # pre.windows[last.win].new_total
  /\ windows[last.win].new_total # windows[last.win].total_cols

C10_WantsHeaderLine ==
  \A w \in Windows :
    LET param == get_parameter(w, Qheader_line_format)
        lh == frames[windows[w].frame].line_height
        threshold == IF wants_mode_line(w) THEN 2 * lh ELSE lh
    IN  wants_header_line(w) <=>
          /\ Leaf(w)
          /\ ~windows[w].mini
          /\ ~windows[w].pseudo_window_p
          /\ param # Qnone
          /\ \/ param # Qnil
             \/ buffers[windows[w].contents].header_line_format_ # Qnil
          /\ windows[w].pixel_height > threshold

\* A window asking for both lines, high enough for one only: it gets the
\* mode line and is refused the header line.
C10_Witness ==
  /\ Returned("window_wants_header_line")
  /\ ~last.ret
  /\ wants_mode_line(last.win)
  /\ get_parameter(last.win, Qheader_line_format) = Qfmt
  /\ windows[last.win].pixel_height > frames["f1"].line_height
  /\ windows[last.win].pixel_height <= 2 * frames["f1"].line_height

\* C11: window_combination_limit and set_window_combination_limit on a
\* window that is not Internal signal an error and the failed set leaves
\* combination_limit unchanged; on an Internal window the set stores LIMIT
\* and returns it.
C11_CombinationLimit ==
  /\ ( /\ last.op \in {"window_combination_limit", "set_window_combination_limit"}
       /\ is_window(last.window)
       /\ ~Internal(last.window) ) =>
       /\ last.err # Qnil
       /\ windows = pre.windows
  /\ Returned("set_window_combination_limit") =>
       /\ Internal(last.win)
       /\ windows[last.win].combination_limit = last.limit
       /\ last.ret = last.limit
  /\ Returned("window_combination_limit") =>
       /\ Internal(last.win)
       /\ last.ret = windows[last.win].combination_limit

\* The limit t was stored in the combination "root", which had nil.
C11_Witness ==
  /\ Returned("set_window_combination_limit")
  /\ Internal(last.win)
  /\ last.limit = Qt
  /\ pre.windows[last.win].combination_limit = Qnil
  /\ windows[last.win].combination_limit = Qt

\* The minibuffer window of the frame: the window an active minibuffer
\* reads in.
MinibufferWindow == CHOOSE w \in Windows : windows[w].mini

\* C12: CURRENT_MODE_LINE_FACE_ID_3(queried, M, R) is the active face when
\* mode-line-in-non-selected-windows is off or queried is the selected
\* window; otherwise it is the active face when a minibuffer is active and
\* M and R are both the active minibuffer window; in every other case it is
\* the inactive face.
C12_FaceSelection ==
  Returned("CURRENT_MODE_LINE_FACE_ID_3") =>
    last.ret =
      IF ~mode_line_in_non_selected_windows \/ last.selw = selected_window
      THEN MODE_LINE_FACE_ID
      ELSE IF /\ minibuf_level > 0
              /\ last.mbw = MinibufferWindow
              /\ last.scrw = MinibufferWindow
      THEN MODE_LINE_FACE_ID
      ELSE MODE_LINE_INACTIVE_FACE_ID

\* C13: while a minibuffer is active and the minibuffer window is selected,
\* CURRENT_MODE_LINE_FACE_ID(w) is the active face for the window w that was
\* selected when the minibuffer was entered, although w is not selected and
\* mode-line-in-non-selected-windows is on.
C13_ScrollWindowActive ==
  ( /\ Returned("CURRENT_MODE_LINE_FACE_ID")
    /\ minibuf_level > 0
    /\ is_minibuffer(selected_window)
    /\ last.window = minibuf_selected_window
    /\ last.window # selected_window
    /\ mode_line_in_non_selected_windows ) =>
    last.ret = MODE_LINE_FACE_ID

\* C14: set_window_point(w, pos) on the selected window leaves the current
\* buffer as it was, also when w's buffer is another buffer, and moves the
\* point of w's buffer to pos; a pos of the wrong type is rejected before
\* any buffer switch: the current buffer and every buffer's point are
\* unchanged.
C14_SelectedPointRestoresBuffer ==
  ( /\ last.op = "set_window_point"
    /\ last.win = pre.selected_window
    /\ is_live(last.win) ) =>
    /\ current_buffer = pre.current_buffer
    /\ last.err = Qnil =>
         /\ is_position(last.pos)
         /\ buffers[windows[last.win].contents].pt = last.pos.n
    /\ ~is_position(last.pos) =>
         /\ last.err # Qnil
         /\ buffers = pre.buffers

\* The point of the selected window's buffer was moved while another buffer
\* was current, and that other buffer is still current.
C14_Witness ==
  /\ Returned("set_window_point")
  /\ last.win = selected_window
  /\ windows[last.win].contents # current_buffer
  /\ current_buffer = pre.current_buffer
  /\ buffers[windows[last.win].contents].pt # pre.buffers[windows[last.win].contents].pt
  /\ buffers[current_buffer].pt = pre.buffers[current_buffer].pt

\* C15: set_window_point(w, pos) on a live window that is not selected puts
\* w's point marker at pos and sets w's redisplay flag, and changes no
\* buffer's point and not the current buffer; window_point(w) then returns
\* the new position.
C15_OtherWindowPoint ==
  ( /\ Returned("set_window_point")
    /\ last.win # pre.selected_window ) =>
    /\ is_live(last.win)
    /\ windows[last.win].pointm = last.pos.n
    /\ windows[last.win].redisplay
    /\ buffers = pre.buffers
    /\ current_buffer = pre.current_buffer
    /\ point_of_window(last.win) = last.pos.n

\* The marker of a window that is not selected moved, away from the point of
\* the window's buffer, and the window was flagged for redisplay.
C15_Witness ==
  /\ Returned("set_window_point")
  /\ last.win # selected_window
  /\ windows[last.win].pointm # pre.windows[last.win].pointm
  /\ windows[last.win].pointm # buffers[windows[last.win].contents].pt
  /\ ~pre.windows[last.win].redisplay
  /\ windows[last.win].redisplay

\* C16: after every scroll_left or scroll_right on the selected window
\* suspend_auto_hscroll is true; when set_minimum is non-nil min_hscroll
\* equals hscroll after the call and is not lower than before; when
\* set_minimum is nil min_hscroll is unchanged; hscroll and min_hscroll are
\* never negative.
C16_ScrollMinimumRaised ==
  (Returned("scroll_left") \/ Returned("scroll_right")) =>
    LET w   == windows[last.win]
        old == pre.windows[last.win]
    IN  /\ w.suspend_auto_hscroll
        /\ IF last.set_minimum # Qnil
           THEN w.min_hscroll = w.hscroll /\ w.min_hscroll >= old.min_hscroll
           ELSE w.min_hscroll = old.min_hscroll
        /\ w.hscroll >= 0
        /\ w.min_hscroll >= 0

\* C16, amended: as above, but with set_minimum non-nil min_hscroll is set
\* to the new hscroll, whether that is above or below the old minimum.
C16_ScrollMinimumSet ==
  (Returned("scroll_left") \/ Returned("scroll_right")) =>
    LET w   == windows[last.win]
        old == pre.windows[last.win]
    IN  /\ last.win = pre.selected_window
        /\ w.suspend_auto_hscroll
        /\ IF last.set_minimum # Qnil
           THEN w.min_hscroll = w.hscroll /\ last.ret = w.hscroll
           ELSE w.min_hscroll = old.min_hscroll
        /\ w.hscroll >= 0
        /\ w.min_hscroll >= 0

\* scroll_right with set_minimum moved hscroll, and with it the minimum,
\* below the old minimum.
C16_Witness ==
  /\ Returned("scroll_right")
  /\ last.set_minimum # Qnil
  /\ ~last.arg.nil
  /\ windows[last.win].hscroll < pre.windows[last.win].hscroll
  /\ windows[last.win].min_hscroll < pre.windows[last.win].min_hscroll
  /\ windows[last.win].suspend_auto_hscroll

\* C17: get_parameter returns the value of the first entry whose key matches
\* and nil when there is none; set_window_parameter with a key that has no
\* entry puts exactly one new (key, value) entry before the old list, which
\* is otherwise unchanged; no call shortens a window's parameter list
\* (setting nil keeps the entry).
C17_ParameterList ==
  /\ Returned("window_parameter") =>
       LET alist == windows[last.win].window_parameters
           hits  == {i \in 1..Len(alist) : alist[i].car = last.parameter}
       IN  IF hits = {} THEN last.ret = Qnil
           ELSE \E i \in hits : /\ \A j \in hits : i <= j
                                /\ last.ret = alist[i].cdr
  /\ Returned("set_window_parameter") =>
       LET old == pre.windows[last.win].window_parameters
           new == windows[last.win].window_parameters
       IN  (\A i \in 1..Len(old) : old[i].car # last.parameter) =>
             /\ Len(new) = Len(old) + 1
             /\ new[1] = [car |-> last.parameter, cdr |-> last.value]
             /\ \A i \in 1..Len(old) : new[i + 1] = old[i]
  /\ \A w \in Windows :
       /\ Len(windows[w].window_parameters) >= Len(pre.windows[w].window_parameters)
       /\ \A i \in 1..Len(pre.windows[w].window_parameters) :
            \E j \in 1..Len(windows[w].window_parameters) :
              windows[w].window_parameters[j].car =
                pre.windows[w].window_parameters[i].car

\* A key without an entry was set to nil on a window that had an entry for
\* the other key: the list grew by the new first entry.
C17_Witness ==
  /\ Returned("set_window_parameter")
  /\ last.value = Qnil
  /\ LET old == pre.windows[last.win].window_parameters
         new == windows[last.win].window_parameters
     IN  /\ Len(old) = 1
         /\ old[1].car # last.parameter
         /\ Len(new) = 2
         /\ new[1].car = last.parameter
         /\ new[2] = old[1]

\* C18: total_width / total_height with a round value other than floor or
\* ceiling return the cached total_cols / total_lines, whatever the pixel
\* extent; with floor or ceiling they depend on the pixel extent and the
\* frame's unit only, not on the cached value; for pixel width 305 and unit
\* 10, ceiling gives 31 and floor gives 30.
C18_RoundPolicy ==
  /\ \A w \in Windows :
       LET cw == frames[windows[w].frame].column_width
           lh == frames[windows[w].frame].line_height
           pw == windows[w].pixel_width
           ph == windows[w].pixel_height
       IN  /\ \A round \in Rounds \ {Qfloor, Qceiling} :
                /\ total_width(w, round) = windows[w].total_cols
                /\ total_height(w, round) = windows[w].total_lines
           /\ total_width(w, Qfloor) = pw \div cw
           /\ total_width(w, Qceiling) = (pw + cw - 1) \div cw
           /\ total_height(w, Qfloor) = ph \div lh
           /\ total_height(w, Qceiling) = (ph + lh - 1) \div lh
           /\ (pw = 305 /\ cw = 10) =>
                /\ total_width(w, Qceiling) = 31
                /\ total_width(w, Qfloor) = 30
  /\ Returned("window_total_width") =>
       /\ last.ret = total_width(last.win, last.round)
       /\ windows = pre.windows
  /\ Returned("window_total_height") =>
       /\ last.ret = total_height(last.win, last.round)
       /\ windows = pre.windows

\* window_total_width with ceiling returned 31 for a window 305 pixels wide
\* on a frame of 10-pixel characters, whose cached column count is 30.
C18_Witness ==
  /\ Returned("window_total_width")
  /\ last.round = Qceiling
  /\ windows[last.win].pixel_width = 305
  /\ frames[windows[last.win].frame].column_width = 10
  /\ windows[last.win].total_cols = 30
  /\ last.ret = 31
  /\ total_width(last.win, Qt) = 30

\* The operations that decode their window with LispWindowLiveOrSelected,
\* and those that decode it with LispWindowValidOrSelected.
LiveOps ==
  {"set_window_point", "set_window_start", "window_point", "window_start"}
    \cup {"set_window_" \o slot : slot \in LiveSetters}
    \cup {"window_" \o slot : slot \in LiveSetters}
ValidOps ==
  {"window_new_total", "set_window_new_total", "window_total_width",
   "window_total_height"}

\* C19: an operation that requires a live window, given an explicit window
\* that is Internal or Empty, signals wrong-type window-live-p; an operation
\* that requires a valid window, given an Empty window, signals wrong-type
\* window-valid-p; in both cases no field of any window is changed.
C19_DecodeErrors ==
  /\ ( /\ last.op \in LiveOps
       /\ last.window # Qnil
       /\ Internal(last.window) \/ Empty(last.window) ) =>
       /\ last.err = Qwindow_live_p
       /\ windows = pre.windows
  /\ ( /\ last.op \in ValidOps
       /\ last.window # Qnil
       /\ Empty(last.window) ) =>
       /\ last.err = Qwindow_valid_p
       /\ windows = pre.windows
  /\ ( /\ last.op \in LiveOps \cup ValidOps
       /\ last.err \in {Qwindow_live_p, Qwindow_valid_p} ) =>
       Snapshot = pre

\* set_window_point with a position was refused for the combination "root".
C19_Witness ==
  /\ last.op = "set_window_point"
  /\ last.window = "root"
  /\ Internal(last.window)
  /\ is_position(last.pos)
  /\ last.err = Qwindow_live_p
  /\ windows = pre.windows

\* C20: window_dedicated_p and set_window_dedicated_p require a live window:
\* given an explicit window that is Internal or Empty they signal an error,
\* and the failed set leaves the window's dedicated value unchanged.
C20_DedicatedNeedsLive ==
  ( /\ last.op \in {"window_dedicated_p", "set_window_dedicated_p"}
    /\ last.window # Qnil
    /\ Internal(last.window) \/ Empty(last.window) ) =>
    /\ last.err # Qnil
    /\ windows[last.window].dedicated = pre.windows[last.window].dedicated

\* C21: window_dedicated_p returns the flag given to the most recent
\* set_window_dedicated_p on the window (nil, t or any other value, as
\* given); setting t and later nil makes it return nil.
C21_DedicatedLastSet ==
  /\ Returned("set_window_dedicated_p") =>
       /\ windows[last.win].dedicated = last.flag
       /\ last.ret = last.flag
       /\ \A w \in Windows \ {last.win} :
            windows[w].dedicated = pre.windows[w].dedicated
  /\ Returned("window_dedicated_p") =>
       /\ last.ret = windows[last.win].dedicated
       /\ windows = pre.windows
  /\ last.op \in {"set_window_dedicated_p", "window_dedicated_p"} =>
       last.win = IF last.window = Qnil THEN pre.selected_window ELSE last.window

\* A window that was set strongly dedicated (t) was set to nil: the value
\* window_dedicated_p reads is nil.
C21_Witness ==
  /\ Returned("set_window_dedicated_p")
  /\ last.flag = Qnil
  /\ pre.windows[last.win].dedicated = Qt
  /\ windows[last.win].dedicated = Qnil

\* C22: window_list(frame, minibuf, window) signals the cross-frame error,
\* without starting a traversal, whenever the starting window (the given
\* window, or the frame's selected window when none is given) is not on the
\* target frame; when they agree the traversal is started from that window
\* on that frame.
C22_WindowListFrame ==
  last.op = "window_list" =>
    LET target == IF last.frame = Qnil THEN windows[pre.selected_window].frame
                  ELSE last.frame
        start  == IF last.window = Qnil THEN pre.frames[target].selected_window
                  ELSE last.window
    IN  IF windows[start].frame # target
        THEN /\ last.err = "Window is on a different frame"
             /\ "traversal" \notin DOMAIN last
             /\ Snapshot = pre
        ELSE /\ last.err = Qnil
             /\ last.traversal = <<start, last.minibuf, target>>
             /\ \A i \in 1..Len(last.ret) : windows[last.ret[i]].frame = target
             /\ (\E i \in 1..Len(last.ret) : last.ret[i] = start) =>
                  last.ret[1] = start

\* With a window of frame f1 selected, the list of frame f2 was asked for
\* starting at w2, a window of f1: the error was signalled.
C22_Witness ==
  /\ last.op = "window_list"
  /\ last.frame = "f2"
  /\ last.window = "w2"
  /\ windows[selected_window].frame = "f1"
  /\ last.err = "Window is on a different frame"

\* C23: scroll_left and scroll_right move hscroll in opposite directions by
\* the same amount, the default amount included: scroll_right without an
\* amount asks for hscroll minus (window body width - 2) and so never
\* increases hscroll; scroll_left without an amount asks for hscroll plus
\* (window body width - 2).
C23_ScrollDirections ==
  (Returned("scroll_left") \/ Returned("scroll_right")) =>
    LET old    == pre.windows[last.win].hscroll
        amount == IF last.arg.nil THEN window_body_width(last.win) - 2
                  ELSE prefix_numeric_value(last.arg)
        asked  == IF last.op = "scroll_left" THEN old + amount ELSE old - amount
    IN  /\ windows[last.win].hscroll = set_window_hscroll(last.win, asked)
        /\ (last.op = "scroll_right" /\ last.arg.nil) =>
             windows[last.win].hscroll <= old

====
